---- MODULE Spec2Model ----
(***************************************************************************)
(* Model of api/flask_app.py: one request to the Flask route "/" fetches   *)
(* the two GTFS-RT feeds, decodes them, left-joins vehicles with trip      *)
(* updates, derives status / route_name / region, and resolves the         *)
(* cascading filter region -> route -> status -> vehicle.                  *)
(*                                                                         *)
(* Strings are tuples of code points, so that Python's str ordering        *)
(* (sorted) and str.split are computed, not assumed.  Latitudes are in     *)
(* hundredths of a degree.  A DataFrame is a record [cols, rows]: cols is  *)
(* TRUE when the frame has its columns (pd.DataFrame([]) has none), rows   *)
(* is the sequence of row records.  The columns lon, stop_sequence and     *)
(* timestamp are carried through the pipeline untouched and read only by   *)
(* the map rendering; they are left out of the rows, as are the clock      *)
(* readings (now, last_refreshed) that only the template shows.            *)
(***************************************************************************)
EXTENDS Integers, Sequences, FiniteSets, TLC

(* ------------------------------ bounds --------------------------------- *)
MaxVehicleEntities == 2
MaxTripEntities == 2

(* ------------------------------ strings -------------------------------- *)
sEmpty == <<>>
sAll == <<65, 108, 108>>
sA == <<65>>
sB == <<66>>
s700city == <<55, 48, 48, 45, 99, 105, 116, 121>>
s700 == <<55, 48, 48>>
s750 == <<55, 53, 48>>
sV1 == <<118, 49>>
sV2 == <<118, 50>>
sDelayed == <<68, 101, 108, 97, 121, 101, 100>>
sEarly == <<69, 97, 114, 108, 121>>
sOnTime == <<79, 110, 32, 84, 105, 109, 101>>
sBrisbane == <<66, 114, 105, 115, 98, 97, 110, 101>>
sGoldCoast == <<71, 111, 108, 100, 32, 67, 111, 97, 115, 116>>
sSunshineCoast == <<83, 117, 110, 115, 104, 105, 110, 101, 32, 67, 111, 97, 115, 116>>
sOther == <<79, 116, 104, 101, 114>>

Hyphen == 45
DelayedAbove == 300
EarlyBelow == -60
BrisbaneSouth == -2775
BrisbaneNorth == -2700
GoldCoastSouth == -2820
GoldCoastNorth == -2778
SunshineSouth == -2690
SunshineNorth == -2630

(* Python str "<": code point by code point, a proper prefix is smaller.   *)
RECURSIVE StrLess(_, _)
StrLess(a, b) ==
    IF b = <<>> THEN FALSE
    ELSE IF a = <<>> THEN TRUE
    ELSE IF Head(a) # Head(b) THEN Head(a) < Head(b)
    ELSE StrLess(Tail(a), Tail(b))

(* s.split('-')[0]: the characters before the first hyphen, all of s when  *)
(* there is none.                                                          *)
RECURSIVE FirstSegment(_)
FirstSegment(s) ==
    IF s = <<>> THEN <<>>
    ELSE IF Head(s) = Hyphen THEN <<>>
    ELSE <<Head(s)>> \o FirstSegment(Tail(s))

(* ------------------------- list helpers (pandas) ----------------------- *)
Contains(seq, x) == \E i \in 1..Len(seq) : seq[i] = x

(* Variant of Unique that keeps repeated values.                           *)
UniqueNoDedup(seq) == seq

(* Series.unique(): the distinct values in order of first appearance.      *)
RECURSIVE Unique(_)
Unique(seq) ==
    IF seq = <<>> THEN <<>>
    ELSE LET init == Unique(SubSeq(seq, 1, Len(seq) - 1))
             last == seq[Len(seq)]
         IN IF Contains(init, last) THEN init ELSE Append(init, last)

RECURSIVE Insert(_, _)
Insert(x, sorted) ==
    IF sorted = <<>> THEN <<x>>
    ELSE IF StrLess(x, Head(sorted)) THEN <<x>> \o sorted
    ELSE <<Head(sorted)>> \o Insert(x, Tail(sorted))

(* sorted(list of str): ascending in str order.                            *)
RECURSIVE Sorted(_)
Sorted(seq) ==
    IF seq = <<>> THEN <<>>
    ELSE Insert(seq[Len(seq)], Sorted(SubSeq(seq, 1, Len(seq) - 1)))

(* --------------------------- feed contents ----------------------------- *)
(* A FeedMessage entity: has names the sub-message it carries ("vehicle",  *)
(* "trip_update" or "alert"); delays lists arrival.delay of its            *)
(* stop_time_update entries.                                               *)
Entity(has, trip_id, route_id, label, lat, delays) ==
    [has |-> has, trip_id |-> trip_id, route_id |-> route_id,
     label |-> label, lat |-> lat, delays |-> delays]

AlertEntity == Entity("alert", sEmpty, sEmpty, sEmpty, 0, <<>>)

VehicleFeedEntities ==
    { Entity("vehicle", sA, s700city, sV1, GoldCoastNorth, <<>>),
      Entity("vehicle", sB, s750, sV2, BrisbaneSouth, <<>>),
      Entity("vehicle", sEmpty, s700city, sAll, GoldCoastNorth + 2, <<>>),
      AlertEntity }

TripFeedEntities ==
    { Entity("trip_update", sA, sEmpty, sEmpty, 0, <<DelayedAbove + 1>>),
      Entity("trip_update", sA, sEmpty, sEmpty, 0, <<DelayedAbove, DelayedAbove + 1>>),
      Entity("trip_update", sB, sEmpty, sEmpty, 0, <<EarlyBelow - 1>>),
      Entity("trip_update", sB, sEmpty, sEmpty, 0, <<EarlyBelow>>),
      Entity("trip_update", sA, sEmpty, sEmpty, 0, <<>>),
      AlertEntity }

SeqsUpTo(S, n) == UNION { [1..k -> S] : k \in 0..n }

(* What requests.get(url).content can be, and None for a failed fetch.     *)
NoneContent == [kind |-> "None", entity |-> <<>>]
EmptyBytes == [kind |-> "empty", entity |-> <<>>]
MalformedBytes == [kind |-> "malformed", entity |-> <<>>]
FeedBytes(entities) == [kind |-> "feed", entity |-> entities]

VehicleResponses ==
    {NoneContent, EmptyBytes, MalformedBytes}
        \cup { FeedBytes(e) : e \in SeqsUpTo(VehicleFeedEntities, MaxVehicleEntities) }

TripResponses ==
    {NoneContent, EmptyBytes, MalformedBytes}
        \cup { FeedBytes(e) : e \in SeqsUpTo(TripFeedEntities, MaxTripEntities) }

(* "not content": None and b"" are falsy.                                  *)
Falsy(content) == content.kind \in {"None", "empty"}

(* FeedMessage.ParseFromString succeeds on the bytes.                      *)
Parses(content) == content.kind = "feed"

(* ------------------------------ DataFrames ----------------------------- *)
(* pd.DataFrame(list of dicts): no columns when the list is empty.         *)
DataFrame(rows) == [cols |-> rows # <<>>, rows |-> rows]
EmptyDataFrame == DataFrame(<<>>)
IsEmpty(df) == df.rows = <<>>

RECURSIVE SelectRows(_, _, _)
SelectRows(rows, col, values) ==
    IF rows = <<>> THEN <<>>
    ELSE LET rest == SelectRows(Tail(rows), col, values)
         IN IF Contains(values, Head(rows)[col]) THEN <<Head(rows)>> \o rest ELSE rest

Column(rows, col) == [i \in 1..Len(rows) |-> rows[i][col]]

(* --------------------------- decoding ---------------------------------- *)
RECURSIVE VehicleRows(_)
VehicleRows(entities) ==
    IF entities = <<>> THEN <<>>
    ELSE LET e == Head(entities)
         IN IF e.has = "vehicle"
            THEN <<[trip_id |-> e.trip_id, route_id |-> e.route_id,
                    vehicle_id |-> e.label, lat |-> e.lat]>> \o VehicleRows(Tail(entities))
            ELSE VehicleRows(Tail(entities))

parse_vehicle_positions(content) == DataFrame(VehicleRows(content.entity))

(* Variant of StatusOfDelay with the thresholds themselves out of "On      *)
(* Time".                                                                  *)
StatusOfDelayInclusive(delay) ==
    IF delay >= DelayedAbove THEN sDelayed
    ELSE IF delay <= EarlyBelow THEN sEarly ELSE sOnTime

StatusOfDelay(delay) ==
    IF delay > DelayedAbove THEN sDelayed
    ELSE IF delay < EarlyBelow THEN sEarly ELSE sOnTime

RECURSIVE UpdateRows(_)
UpdateRows(entities) ==
    IF entities = <<>> THEN <<>>
    ELSE LET e == Head(entities)
         IN IF e.has = "trip_update" /\ e.delays # <<>>
            THEN <<[trip_id |-> e.trip_id, delay |-> e.delays[1],
                    status |-> StatusOfDelay(e.delays[1])]>> \o UpdateRows(Tail(entities))
            ELSE UpdateRows(Tail(entities))

parse_trip_updates(content) == DataFrame(UpdateRows(content.entity))

(* ----------------------------- enrichment ------------------------------ *)
(* A cell of a column the merge may leave missing: <<>> is NaN, <<v>> is v. *)
NaN == <<>>
Cell(v) == <<v>>

ExtendRow(l, delay, status) ==
    [trip_id |-> l.trip_id, route_id |-> l.route_id, vehicle_id |-> l.vehicle_id,
     lat |-> l.lat, delay |-> delay, status |-> status]

RECURSIVE MatchRows(_, _)
MatchRows(l, right) ==
    IF right = <<>> THEN <<>>
    ELSE LET r == Head(right)
             rest == MatchRows(l, Tail(right))
         IN IF r.trip_id = l.trip_id
            THEN <<ExtendRow(l, Cell(r.delay), Cell(r.status))>> \o rest
            ELSE rest

(* vehicles_df.merge(updates_df, on="trip_id", how="left"): the rows of    *)
(* left in order, one per matching right row, one with NaN when none       *)
(* matches.                                                                *)
RECURSIVE MergeLeft(_, _)
MergeLeft(left, right) ==
    IF left = <<>> THEN <<>>
    ELSE LET l == Head(left)
             m == MatchRows(l, right)
         IN (IF m = <<>> THEN <<ExtendRow(l, NaN, NaN)>> ELSE m)
                \o MergeLeft(Tail(left), right)

(* merge raises KeyError when a frame lacks the "on" column.               *)
MergeRaises(left, right) == ~left.cols \/ ~right.cols

(* Lines 72-73, df[col].fillna(value, inplace=True), with the pandas       *)
(* semantics in which the column selected from the frame is the frame's    *)
(* own data, so that filling it in place fills the frame.                  *)
FillNa(cell, value) == IF cell = NaN THEN value ELSE cell[1]

categorize_region(lat) ==
    IF BrisbaneSouth <= lat /\ lat <= BrisbaneNorth THEN sBrisbane
    ELSE IF GoldCoastSouth <= lat /\ lat <= GoldCoastNorth THEN sGoldCoast
    ELSE IF SunshineSouth <= lat /\ lat <= SunshineNorth THEN sSunshineCoast
    ELSE sOther

EnrichRow(row) ==
    [trip_id |-> row.trip_id, route_id |-> row.route_id, vehicle_id |-> row.vehicle_id,
     lat |-> row.lat,
     delay |-> FillNa(row.delay, 0),
     status |-> FillNa(row.status, sOnTime),
     route_name |-> FirstSegment(row.route_id),
     region |-> categorize_region(row.lat)]

Enrich(vehicles, updates) ==
    LET merged == MergeLeft(vehicles.rows, updates.rows)
    IN [cols |-> TRUE, rows |-> [i \in 1..Len(merged) |-> EnrichRow(merged[i])]]

(* ------------------------------- cascade ------------------------------- *)
Options(df, col) == Sorted(Unique(Column(df.rows, col)))

WithAll(options) == <<sAll>> \o options

FilterEq(df, col, selected) ==
    IF selected # sAll
    THEN [cols |-> df.cols, rows |-> SelectRows(df.rows, col, <<selected>>)]
    ELSE df

DfForRoutes(master, selected_region) == FilterEq(master, "region", selected_region)

DfForStatus(df_for_routes, selected_route) ==
    FilterEq(df_for_routes, "route_name", selected_route)

(* Variant of EffectiveStatus without lines 113-114.                       *)
EffectiveStatusNoDefault(selected_status, status_options) == selected_status

(* Variant of EffectiveStatus that defaults to every status there is       *)
(* instead of the statuses present.                                        *)
EffectiveStatusAllKnown(selected_status, status_options) ==
    IF selected_status = <<>> THEN <<sDelayed, sEarly, sOnTime>> ELSE selected_status

EffectiveStatus(selected_status, status_options) ==
    IF selected_status = <<>> THEN status_options ELSE selected_status

DfForVehicles(df_for_status, selected_status) ==
    [cols |-> df_for_status.cols,
     rows |-> SelectRows(df_for_status.rows, "status", selected_status)]

CascadeLocals(region_options, df_for_routes, route_options, df_for_status, status_options, selected_status, df_for_vehicles, vehicle_options, filtered_df) ==
    [region_options |-> region_options,
     df_for_routes |-> df_for_routes,
     route_options |-> route_options,
     df_for_status |-> df_for_status,
     status_options |-> status_options,
     selected_status |-> selected_status,
     df_for_vehicles |-> df_for_vehicles,
     vehicle_options |-> vehicle_options,
     filtered_df |-> filtered_df]

(* Variant of Cascade whose line 109 filters master_df instead of          *)
(* df_for_routes.                                                          *)
CascadeStatusFromMaster(master, args) ==
    LET region_options == WithAll(Options(master, "region"))
        df_for_routes == DfForRoutes(master, args.region)
        route_options == WithAll(Options(df_for_routes, "route_name"))
        df_for_status == DfForStatus(master, args.route)
        status_options == Options(df_for_status, "status")
        selected_status == EffectiveStatus(args.status, status_options)
        df_for_vehicles == DfForVehicles(df_for_status, selected_status)
        vehicle_options == WithAll(Options(df_for_vehicles, "vehicle_id"))
        filtered_df == FilterEq(df_for_vehicles, "vehicle_id", args.vehicle)
    IN CascadeLocals(region_options, df_for_routes, route_options, df_for_status,
                     status_options, selected_status, df_for_vehicles,
                     vehicle_options, filtered_df)

(* Variant of Cascade that reads the vehicle options after the vehicle     *)
(* filter of lines 123-124.                                                *)
CascadeOptionsAfterVehicleFilter(master, args) ==
    LET region_options == WithAll(Options(master, "region"))
        df_for_routes == DfForRoutes(master, args.region)
        route_options == WithAll(Options(df_for_routes, "route_name"))
        df_for_status == DfForStatus(df_for_routes, args.route)
        status_options == Options(df_for_status, "status")
        selected_status == EffectiveStatus(args.status, status_options)
        df_for_vehicles == DfForVehicles(df_for_status, selected_status)
        filtered_df == FilterEq(df_for_vehicles, "vehicle_id", args.vehicle)
        vehicle_options == WithAll(Options(filtered_df, "vehicle_id"))
    IN CascadeLocals(region_options, df_for_routes, route_options, df_for_status,
                     status_options, selected_status, df_for_vehicles,
                     vehicle_options, filtered_df)

(* The locals of index() after the cascade, lines 102-124.                 *)
Cascade(master, args) ==
    LET region_options == WithAll(Options(master, "region"))
        df_for_routes == DfForRoutes(master, args.region)
        route_options == WithAll(Options(df_for_routes, "route_name"))
        df_for_status == DfForStatus(df_for_routes, args.route)
        status_options == Options(df_for_status, "status")
        selected_status == EffectiveStatus(args.status, status_options)
        df_for_vehicles == DfForVehicles(df_for_status, selected_status)
        vehicle_options == WithAll(Options(df_for_vehicles, "vehicle_id"))
        filtered_df == FilterEq(df_for_vehicles, "vehicle_id", args.vehicle)
    IN CascadeLocals(region_options, df_for_routes, route_options, df_for_status,
                     status_options, selected_status, df_for_vehicles,
                     vehicle_options, filtered_df)

(* The template context of render_template, lines 143-156, without the     *)
(* clock strings; has_map tells which branch of lines 127-141 built        *)
(* map_html.                                                               *)
Context(c, args) ==
    [tracked_buses_count |-> Len(c.filtered_df.rows),
     has_map |-> ~IsEmpty(c.filtered_df),
     region_options |-> c.region_options,
     route_options |-> c.route_options,
     status_options |-> c.status_options,
     vehicle_options |-> c.vehicle_options,
     selected_filters |-> [region |-> args.region, route |-> args.route,
                           status |-> c.selected_status, vehicle |-> args.vehicle]]

(* request.args of a GET /: region and route default to "Gold Coast" and   *)
(* "700", status to the empty list, vehicle to "All".                      *)
RequestArgs ==
    [region : {sAll, sGoldCoast, sBrisbane},
     route : {sAll, s700},
     status : {<<>>, <<sDelayed>>, <<sOnTime, sEarly>>},
     vehicle : {sAll, sV1}]

(* ------------------------------- state --------------------------------- *)
VARIABLES
    pc,               \* position of the request in index() / get_live_bus_data()
    vehicle_content,  \* line 59
    trip_content,     \* line 60
    vehicles_df,      \* line 65
    updates_df,       \* line 66
    master_df,        \* line 88: what get_live_bus_data() returned
    args,             \* request.args, lines 94-97
    cascade,          \* locals of index(), lines 102-124
    context,          \* template context, lines 143-156
    raised,           \* the exception that left index(), "" when none
    response          \* HTTP status of the response, 0 while in progress

vars == <<pc, vehicle_content, trip_content, vehicles_df, updates_df, master_df,
          args, cascade, context, raised, response>>

NoArgs == [region |-> sEmpty, route |-> sEmpty, status |-> <<>>, vehicle |-> sEmpty]
NoCascade == CascadeLocals(<<>>, EmptyDataFrame, <<>>, EmptyDataFrame, <<>>, <<>>,
                           EmptyDataFrame, <<>>, EmptyDataFrame)
NoContext == [tracked_buses_count |-> 0, has_map |-> FALSE, region_options |-> <<>>,
              route_options |-> <<>>, status_options |-> <<>>, vehicle_options |-> <<>>,
              selected_filters |-> NoArgs]

Init ==
    /\ pc = "fetch_vehicles"
    /\ vehicle_content = NoneContent
    /\ trip_content = NoneContent
    /\ vehicles_df = EmptyDataFrame
    /\ updates_df = EmptyDataFrame
    /\ master_df = EmptyDataFrame
    /\ args = NoArgs
    /\ cascade = NoCascade
    /\ context = NoContext
    /\ raised = ""
    /\ response = 0

(* An exception nobody catches leaves index(): Flask answers 500.          *)
Raise(exception) ==
    /\ raised' = exception
    /\ response' = 500
    /\ pc' = "done"

(* Line 59: fetch_gtfs_rt(VEHICLE_POSITIONS_URL), lines 23-30.             *)
FetchVehicles ==
    /\ pc = "fetch_vehicles"
    /\ \E content \in VehicleResponses : vehicle_content' = content
    /\ pc' = "fetch_trips"
    /\ UNCHANGED <<trip_content, vehicles_df, updates_df, master_df, args, cascade,
                   context, raised, response>>

(* Line 60: fetch_gtfs_rt(TRIP_UPDATES_URL).                               *)
FetchTrips ==
    /\ pc = "fetch_trips"
    /\ \E content \in TripResponses : trip_content' = content
    /\ pc' = "check_content"
    /\ UNCHANGED <<vehicle_content, vehicles_df, updates_df, master_df, args, cascade,
                   context, raised, response>>

(* Variant of ContentMissing with "and" for "or".                          *)
ContentMissingBoth(vc, tc) == Falsy(vc) /\ Falsy(tc)

ContentMissing(vc, tc) == Falsy(vc) \/ Falsy(tc)

(* Lines 62-63.                                                            *)
CheckContent ==
    /\ pc = "check_content"
    /\ IF ContentMissing(vehicle_content, trip_content)
       THEN /\ master_df' = EmptyDataFrame
            /\ pc' = "index"
       ELSE /\ pc' = "parse_vehicles"
            /\ UNCHANGED master_df
    /\ UNCHANGED <<vehicle_content, trip_content, vehicles_df, updates_df, args,
                   cascade, context, raised, response>>

(* Line 65; ParseFromString raises DecodeError on malformed bytes and      *)
(* TypeError on None.                                                      *)
ParseVehicles ==
    /\ pc = "parse_vehicles"
    /\ IF Parses(vehicle_content)
       THEN /\ vehicles_df' = parse_vehicle_positions(vehicle_content)
            /\ pc' = "parse_trips"
            /\ UNCHANGED <<raised, response>>
       ELSE /\ Raise(IF vehicle_content.kind = "None" THEN "TypeError" ELSE "DecodeError")
            /\ UNCHANGED vehicles_df
    /\ UNCHANGED <<vehicle_content, trip_content, updates_df, master_df, args, cascade,
                   context>>

(* Line 66.                                                                *)
ParseTrips ==
    /\ pc = "parse_trips"
    /\ IF Parses(trip_content)
       THEN /\ updates_df' = parse_trip_updates(trip_content)
            /\ pc' = "check_empty"
            /\ UNCHANGED <<raised, response>>
       ELSE /\ Raise(IF trip_content.kind = "None" THEN "TypeError" ELSE "DecodeError")
            /\ UNCHANGED updates_df
    /\ UNCHANGED <<vehicle_content, trip_content, vehicles_df, master_df, args, cascade,
                   context>>

(* Lines 68-69.                                                            *)
CheckEmpty ==
    /\ pc = "check_empty"
    /\ IF IsEmpty(vehicles_df)
       THEN /\ master_df' = EmptyDataFrame
            /\ pc' = "index"
       ELSE /\ pc' = "enrich"
            /\ UNCHANGED master_df
    /\ UNCHANGED <<vehicle_content, trip_content, vehicles_df, updates_df, args,
                   cascade, context, raised, response>>

(* Lines 71-83.  Returning live_data ends the scope of the locals of        *)
(* get_live_bus_data(): nothing reads them again and the model forgets     *)
(* them.  On the early returns and on an exception it keeps them, as the   *)
(* record of why the request failed.                                       *)
EnrichStep ==
    /\ pc = "enrich"
    /\ IF MergeRaises(vehicles_df, updates_df)
       THEN /\ Raise("KeyError")
            /\ UNCHANGED <<vehicle_content, trip_content, vehicles_df, updates_df,
                           master_df>>
       ELSE /\ master_df' = Enrich(vehicles_df, updates_df)
            /\ pc' = "index"
            /\ vehicle_content' = NoneContent
            /\ trip_content' = NoneContent
            /\ vehicles_df' = EmptyDataFrame
            /\ updates_df' = EmptyDataFrame
            /\ UNCHANGED <<raised, response>>
    /\ UNCHANGED <<args, cascade, context>>

(* Lines 88-91.                                                            *)
ServiceUnavailable ==
    /\ pc = "index"
    /\ IsEmpty(master_df)
    /\ response' = 503
    /\ pc' = "done"
    /\ UNCHANGED <<vehicle_content, trip_content, vehicles_df, updates_df, master_df,
                   args, cascade, context, raised>>

(* Lines 88-158 with live data: read the selections, resolve the cascade,  *)
(* render.                                                                 *)
Resolve ==
    /\ pc = "index"
    /\ ~IsEmpty(master_df)
    /\ \E a \in RequestArgs :
          /\ args' = a
          /\ cascade' = Cascade(master_df, a)
          /\ context' = Context(Cascade(master_df, a), a)
    /\ response' = 200
    /\ pc' = "done"
    /\ UNCHANGED <<vehicle_content, trip_content, vehicles_df, updates_df, master_df,
                   raised>>

(* Nothing survives a request: the next one starts from scratch.           *)
NextRequest ==
    /\ pc = "done"
    /\ pc' = "fetch_vehicles"
    /\ vehicle_content' = NoneContent
    /\ trip_content' = NoneContent
    /\ vehicles_df' = EmptyDataFrame
    /\ updates_df' = EmptyDataFrame
    /\ master_df' = EmptyDataFrame
    /\ args' = NoArgs
    /\ cascade' = NoCascade
    /\ context' = NoContext
    /\ raised' = ""
    /\ response' = 0

Next ==
    \/ FetchVehicles
    \/ FetchTrips
    \/ CheckContent
    \/ ParseVehicles
    \/ ParseTrips
    \/ CheckEmpty
    \/ EnrichStep
    \/ ServiceUnavailable
    \/ Resolve
    \/ NextRequest

Spec == Init /\ [][Next]_vars

(* ------------------------------ properties ----------------------------- *)
Done200 == pc = "done" /\ response = 200

Elements(seq) == { seq[i] : i \in 1..Len(seq) }

(* Ascending in str order with no two entries equal.                       *)
StrictlyAscending(seq) == \A i \in 1..(Len(seq) - 1) : StrLess(seq[i], seq[i + 1])

OneFetchFailed ==
    /\ pc \notin {"fetch_vehicles", "fetch_trips"}
    /\ (vehicle_content.kind = "None") # (trip_content.kind = "None")

(* C1: the enrichment step turns a non-empty vehicle frame into exactly    *)
(* one enriched record per vehicle record, whatever the trip updates are   *)
(* (none, unmatched, empty trip ids).                                      *)
C1_LeftJoinTotal ==
    [][pc = "enrich" =>
          /\ pc' = "index"
          /\ Len(master_df'.rows) = Len(vehicles_df.rows)]_vars

(* C2: when one fetch failed and the other succeeded, nothing is decoded   *)
(* or enriched, no cascade result exists, and the request ends in the      *)
(* pipeline failure (the empty frame, answered 503).                       *)
C2_FailedFetchFailsCycle ==
    OneFetchFailed =>
        /\ pc \in {"check_content", "index", "done"}
        /\ IsEmpty(vehicles_df) /\ IsEmpty(updates_df) /\ IsEmpty(master_df)
        /\ cascade = NoCascade /\ context = NoContext
        /\ raised = ""
        /\ response \in {0, 503}
        /\ (pc = "done" => response = 503)

C2_Witness ==
    /\ pc = "done"
    /\ response = 503
    /\ vehicle_content.kind = "feed"
    /\ VehicleRows(vehicle_content.entity) # <<>>
    /\ trip_content.kind = "None"

(* C3: both feeds fetched and decoded, no vehicle record: the response is  *)
(* not the service-unavailable one that a failed fetch gets.               *)
C3_EmptyFeedIsNotUnavailable ==
    (/\ pc = "done"
     /\ Parses(vehicle_content) /\ Parses(trip_content)
     /\ IsEmpty(vehicles_df)) => response # 503

(* C4: a feed whose bytes do not decode ends the request as a pipeline     *)
(* failure, answered service-unavailable, with no cascade result.          *)
C4_DecodeFailureIsUnavailable ==
    (/\ pc = "done"
     /\ ~Falsy(vehicle_content) /\ ~Falsy(trip_content)
     /\ (~Parses(vehicle_content) \/ ~Parses(trip_content)))
        => (response = 503 /\ cascade = NoCascade /\ context = NoContext)

(* C5: with no status in the request, the effective status selection is    *)
(* the status option list of this resolution, which holds exactly the      *)
(* statuses of the route-stage subset; the status stage drops no record    *)
(* and the selection handed to the template is that list.                  *)
C5_EmptyStatusDefaultsToOptions ==
    (Done200 /\ args.status = <<>>) =>
        /\ cascade.selected_status = cascade.status_options
        /\ Elements(cascade.status_options)
              = { cascade.df_for_status.rows[i].status :
                      i \in 1..Len(cascade.df_for_status.rows) }
        /\ cascade.df_for_vehicles = cascade.df_for_status
        /\ context.selected_filters.status = cascade.status_options

C5_Witness ==
    /\ Done200
    /\ args.status = <<>>
    /\ Len(cascade.status_options) = 2
    /\ Len(cascade.df_for_vehicles.rows) >= 2

(* C6: a resolution of the same enriched set whose selections agree on     *)
(* the stages before a stage has the same option list at that stage.       *)
C6_LaterStagesDoNotAffectEarlier ==
    Done200 =>
        \A other \in RequestArgs :
            LET c == Cascade(master_df, other)
            IN /\ c.region_options = cascade.region_options
               /\ other.region = args.region
                    => c.route_options = cascade.route_options
               /\ (other.region = args.region /\ other.route = args.route)
                    => c.status_options = cascade.status_options
               /\ (/\ other.region = args.region
                   /\ other.route = args.route
                   /\ other.status = args.status)
                    => c.vehicle_options = cascade.vehicle_options

C6_Witness ==
    /\ Done200
    /\ args.vehicle = sV1
    /\ Len(cascade.filtered_df.rows) = 1
    /\ Len(cascade.vehicle_options) >= 3
    /\ args.status # <<>>
    /\ Len(cascade.status_options) >= 2

HasAllFirst(options) == options # <<>> /\ Head(options) = sAll

(* C7 as stated: each option list, taken whole, is duplicate-free and in   *)
(* str order, "All" heading the region, route and vehicle lists and        *)
(* absent from the status list.                                            *)
C7_WholeListsAscending ==
    Done200 =>
        /\ HasAllFirst(cascade.region_options)
        /\ HasAllFirst(cascade.route_options)
        /\ HasAllFirst(cascade.vehicle_options)
        /\ StrictlyAscending(cascade.region_options)
        /\ StrictlyAscending(cascade.route_options)
        /\ StrictlyAscending(cascade.vehicle_options)
        /\ StrictlyAscending(cascade.status_options)
        /\ sAll \notin Elements(cascade.status_options)

(* C7 amended: "All" heads the region, route and vehicle lists; the        *)
(* entries after it, and the whole status list, are duplicate-free and in  *)
(* str order; the status list never holds "All".                           *)
C7_OptionsAscendingAfterAll ==
    Done200 =>
        /\ HasAllFirst(cascade.region_options)
        /\ HasAllFirst(cascade.route_options)
        /\ HasAllFirst(cascade.vehicle_options)
        /\ StrictlyAscending(Tail(cascade.region_options))
        /\ StrictlyAscending(Tail(cascade.route_options))
        /\ StrictlyAscending(Tail(cascade.vehicle_options))
        /\ StrictlyAscending(cascade.status_options)
        /\ sAll \notin Elements(cascade.status_options)
        /\ context.region_options = cascade.region_options
        /\ context.route_options = cascade.route_options
        /\ context.status_options = cascade.status_options
        /\ context.vehicle_options = cascade.vehicle_options

C7_Witness ==
    /\ Done200
    /\ Len(cascade.route_options) = 3
    /\ StrLess(cascade.route_options[2], sAll)
    /\ Len(cascade.region_options) >= 3
    /\ Len(cascade.status_options) >= 2
    /\ Len(master_df.rows) >= 3

Within(narrow, wide) ==
    /\ Elements(narrow) \subseteq Elements(wide)
    /\ Len(narrow) <= Len(wide)

(* C8: replacing "All" by a concrete region or route, or the empty status  *)
(* list by a non-empty one, never adds an entry to the option list of a    *)
(* later stage.                                                            *)
C8_CascadeMonotone ==
    Done200 =>
        LET anyRegion == Cascade(master_df, [args EXCEPT !.region = sAll])
            anyRoute == Cascade(master_df, [args EXCEPT !.route = sAll])
            anyStatus == Cascade(master_df, [args EXCEPT !.status = <<>>])
        IN /\ Within(cascade.route_options, anyRegion.route_options)
           /\ Within(cascade.status_options, anyRegion.status_options)
           /\ Within(cascade.vehicle_options, anyRegion.vehicle_options)
           /\ Within(cascade.status_options, anyRoute.status_options)
           /\ Within(cascade.vehicle_options, anyRoute.vehicle_options)
           /\ Within(cascade.vehicle_options, anyStatus.vehicle_options)

C8_Witness ==
    /\ Done200
    /\ args.region # sAll /\ args.route = sAll /\ args.status # <<>>
    /\ Len(cascade.route_options) = 2
    /\ Len(Cascade(master_df, [args EXCEPT !.region = sAll]).route_options) = 3
    /\ Len(cascade.vehicle_options)
          < Len(Cascade(master_df, [args EXCEPT !.status = <<>>]).vehicle_options)

(* C9 as stated: once a stage's working subset is empty, every later       *)
(* option list is empty and so is the filtered subset, in a normal         *)
(* response.                                                               *)
C9_EmptySubsetEmptiesLaterOptions ==
    (pc = "done" /\ cascade # NoCascade) =>
        /\ response = 200
        /\ IsEmpty(cascade.df_for_routes) =>
              /\ cascade.route_options = <<>>
              /\ cascade.status_options = <<>>
              /\ cascade.vehicle_options = <<>>
              /\ IsEmpty(cascade.filtered_df)
        /\ IsEmpty(cascade.df_for_status) =>
              /\ cascade.status_options = <<>>
              /\ cascade.vehicle_options = <<>>
              /\ IsEmpty(cascade.filtered_df)
        /\ IsEmpty(cascade.df_for_vehicles) =>
              /\ cascade.vehicle_options = <<>>
              /\ IsEmpty(cascade.filtered_df)

(* C9 amended: once a stage's working subset is empty, every later option  *)
(* list holds no value of a record (the route and vehicle lists are just   *)
(* "All", the status list is empty) and the filtered subset is empty, in   *)
(* a normal response that tracks no bus.                                   *)
C9_EmptySubsetLeavesOnlyAll ==
    Done200 =>
        /\ IsEmpty(cascade.df_for_routes) =>
              /\ cascade.route_options = <<sAll>>
              /\ IsEmpty(cascade.df_for_status)
        /\ IsEmpty(cascade.df_for_status) =>
              /\ cascade.status_options = <<>>
              /\ IsEmpty(cascade.df_for_vehicles)
        /\ IsEmpty(cascade.df_for_vehicles) =>
              /\ cascade.vehicle_options = <<sAll>>
              /\ IsEmpty(cascade.filtered_df)
              /\ context.tracked_buses_count = 0
              /\ ~context.has_map

C9_Witness ==
    /\ Done200
    /\ ~IsEmpty(master_df)
    /\ IsEmpty(cascade.df_for_routes)
    /\ args.route # sAll
    /\ cascade.vehicle_options = <<sAll>>

(* C10: every enriched record has the status its own delay gives by the    *)
(* thresholds (over 300 "Delayed", under -60 "Early", else "On Time");     *)
(* a vehicle whose trip has no update gets delay 0 and "On Time".          *)
C10_StatusIsThresholdOfDelay ==
    [][(pc = "enrich" /\ pc' = "index") =>
          \A i \in 1..Len(master_df'.rows) :
              LET row == master_df'.rows[i]
              IN /\ row.status \in {sDelayed, sEarly, sOnTime}
                 /\ row.delay > 300 => row.status = sDelayed
                 /\ row.delay < -60 => row.status = sEarly
                 /\ (row.delay <= 300 /\ row.delay >= -60) => row.status = sOnTime
                 /\ row.trip_id \notin Elements(Column(updates_df.rows, "trip_id"))
                      => (row.delay = 0 /\ row.status = sOnTime)]_vars

C10_Witness ==
    /\ pc = "index"
    /\ \E i, j, k \in 1..Len(master_df.rows) :
          /\ master_df.rows[i].delay = 301 /\ master_df.rows[i].status = sDelayed
          /\ master_df.rows[j].delay = 300 /\ master_df.rows[j].status = sOnTime
          /\ master_df.rows[k].trip_id = sEmpty /\ master_df.rows[k].delay = 0

====
